---- MODULE Spec2Model ----
(***************************************************************************)
(* A model of src/src/lib.rs: the LegacyTransaction builder, the           *)
(* BitcoinSerialize encoder, the TryFrom<&[u8]> decoder, parse_cli_args    *)
(* and Point<T>::from_str.                                                 *)
(*                                                                         *)
(* Representation.                                                         *)
(*   - a byte is a number in 0..255, a byte slice a sequence of bytes;     *)
(*   - an i32 is an integer in -2^31 .. 2^31-1;                            *)
(*   - a u32 is a pair <<hi, lo>> of 16-bit halves (value hi*65536 + lo),  *)
(*     because the model checker's integers are 32-bit signed and cannot   *)
(*     hold 0xFFFFFFFF;                                                    *)
(*   - a string is a sequence of one-character strings, so that prefixes,  *)
(*     suffixes, splitting and digit parsing are computed, not assumed;    *)
(*   - storage is counted in pages of 65536 bytes.                         *)
(***************************************************************************)
EXTENDS Integers, Sequences, FiniteSets, TLC

VARIABLES
    stage,      \* position of the running scenario
    builder,    \* the LegacyTransactionBuilder under construction
    calls,      \* the builder calls made so far (history)
    tx,         \* the LegacyTransaction last built
    bytes,      \* the output of serialize
    framing,    \* how the decoder input was derived from bytes
    data,       \* the byte slice handed to try_from
    heap,       \* pages the allocator can grant (environment)
    decoded,    \* the outcome of try_from
    argv,       \* the argument vector handed to parse_cli_args
    cli,        \* the outcome of parse_cli_args
    stdout,     \* lines printed so far
    ptype,      \* the component type T of Point<T>
    pstr,       \* the string handed to Point<T>::from_str
    point       \* the outcome of Point<T>::from_str

vars == <<stage, builder, calls, tx, bytes, framing, data, heap, decoded,
          argv, cli, stdout, ptype, pstr, point>>

(***************************************************************************)
(* Bounds of the model.                                                    *)
(***************************************************************************)
MaxLen == 18        \* longest byte slice handed to try_from
MaxCalls == 4       \* longest chain of builder calls
MaxArgs == 4        \* longest argument vector
MaxStrLen == 5      \* longest string handed to Point<T>::from_str

(***************************************************************************)
(* Program constants.                                                      *)
(***************************************************************************)
\* Mutant of MinLen: the threshold of the 16 bytes the decoder reads.
MinLen_sixteen == 12 + 4

MinLen == 12            \* the admission threshold of try_from
SizeOfTxInput == 64     \* size_of::<TxInput>() on a 64-bit target
SizeOfTxOutput == 32    \* size_of::<TxOutput>() on a 64-bit target

(***************************************************************************)
(* Fixed-width integers and their little-endian encodings.                 *)
(***************************************************************************)
Byte == 0..255

U32(hi, lo) == <<hi, lo>>

\* i32::to_le_bytes: two's complement, least significant byte first.
\* (\div is floor division and % is non-negative, so this is the
\* two's-complement byte of a negative v.)
i32_to_le_bytes(v) ==
    << v % 256, (v \div 256) % 256, (v \div 65536) % 256, (v \div 16777216) % 256 >>

\* u32::to_le_bytes
u32_to_le_bytes(u) ==
    << u[2] % 256, u[2] \div 256, u[1] % 256, u[1] \div 256 >>

\* i32::from_le_bytes
i32_from_le_bytes(b) ==
    b[1] + 256 * b[2] + 65536 * b[3]
      + 16777216 * (IF b[4] >= 128 THEN b[4] - 256 ELSE b[4])

\* u32::from_le_bytes
u32_from_le_bytes(b) ==
    U32(b[3] + 256 * b[4], b[1] + 256 * b[2])

Zero4 == <<0, 0, 0, 0>>

(***************************************************************************)
(* The records.                                                            *)
(***************************************************************************)
OutPoint(txid, vout) == [txid |-> txid, vout |-> vout]

TxInput(previous_output, script_sig, sequence) ==
    [previous_output |-> previous_output, script_sig |-> script_sig,
     sequence |-> sequence]

TxOutput(value, script_pubkey) == [value |-> value, script_pubkey |-> script_pubkey]

LegacyTransaction(version, inputs, outputs, lock_time) ==
    [version |-> version, inputs |-> inputs, outputs |-> outputs,
     lock_time |-> lock_time]

(***************************************************************************)
(* The builder.  Each method consumes the builder and returns the updated  *)
(* one.                                                                    *)
(***************************************************************************)
Builder_default ==
    [version |-> 1, inputs |-> <<>>, outputs |-> <<>>, lock_time |-> U32(0, 0)]

Builder_new == Builder_default

LegacyTransaction_builder == Builder_default

Builder_version(self, version) == [self EXCEPT !.version = version]

\* Mutant of Builder_add_input: the input is put in front.
Builder_add_input_front(self, input) == [self EXCEPT !.inputs = <<input>> \o @]

Builder_add_input(self, input) == [self EXCEPT !.inputs = Append(@, input)]

Builder_add_output(self, output) == [self EXCEPT !.outputs = Append(@, output)]

Builder_lock_time(self, lock_time) == [self EXCEPT !.lock_time = lock_time]

Builder_build(self) ==
    LegacyTransaction(self.version, self.inputs, self.outputs, self.lock_time)

(***************************************************************************)
(* The encoder.  Its one reservation is the constant 8 bytes, which every  *)
(* heap of the model grants.                                               *)
(***************************************************************************)
\* Mutant of serialize: most significant byte first.
serialize_be(self) ==
    LET v == i32_to_le_bytes(self.version)
        l == u32_to_le_bytes(self.lock_time)
    IN  <<v[4], v[3], v[2], v[1], l[4], l[3], l[2], l[1]>>

serialize(self) ==
    i32_to_le_bytes(self.version) \o u32_to_le_bytes(self.lock_time)

(***************************************************************************)
(* The decoder.                                                            *)
(***************************************************************************)
\* <&[u8] as Read>::read_exact: with too few bytes left the buffer is left
\* as it was and the slice is emptied; otherwise the buffer is filled from
\* the head of the slice, which advances.
read_exact(src, buf) ==
    IF Len(buf) > Len(src)
    THEN [src |-> <<>>, buf |-> buf, ok |-> FALSE]
    ELSE [src |-> SubSeq(src, Len(buf) + 1, Len(src)),
          buf |-> SubSeq(src, 1, Len(buf)), ok |-> TRUE]

\* Pages of 65536 bytes that n elements of elemSize bytes occupy.
PagesFor(n, elemSize) ==
    n[1] * elemSize + ((n[2] * elemSize + 65535) \div 65536)

\* Vec::with_capacity(n) of elements of elemSize bytes, with avail pages
\* left: nothing is reserved for n = 0; otherwise n * elemSize bytes are
\* requested, and a refused request aborts the process
\* (handle_alloc_error).  On a 64-bit target n * elemSize never exceeds
\* isize::MAX for a u32 n.
with_capacity(n, elemSize, avail) ==
    IF PagesFor(n, elemSize) <= avail
    THEN [ok |-> TRUE, cap |-> n, pages |-> PagesFor(n, elemSize)]
    ELSE [ok |-> FALSE, cap |-> U32(0, 0), pages |-> 0]

NoTx == LegacyTransaction(0, <<>>, <<>>, U32(0, 0))

Outcome(kind, err, t, cap_in, cap_out, pages) ==
    [kind |-> kind, err |-> err, tx |-> t,
     inputs_cap |-> cap_in, outputs_cap |-> cap_out, pages |-> pages]

NoOutcome == Outcome("None", "", NoTx, U32(0, 0), U32(0, 0), 0)

\* Mutant of try_from: the 12-byte layout (version, input count, lock_time).
try_from_12byte(d, avail) ==
    IF Len(d) < MinLen
    THEN Outcome("Err", "InvalidTransaction", NoTx, U32(0, 0), U32(0, 0), 0)
    ELSE LET r1 == read_exact(d, Zero4)
             r2 == read_exact(r1.src, Zero4)
             r4 == read_exact(r2.src, Zero4)
             ins == with_capacity(u32_from_le_bytes(r2.buf), SizeOfTxInput, avail)
         IN  IF ~ins.ok
             THEN Outcome("Abort", "", NoTx, U32(0, 0), U32(0, 0), 0)
             ELSE Outcome("Ok", "",
                          LegacyTransaction(i32_from_le_bytes(r1.buf), <<>>, <<>>,
                                            u32_from_le_bytes(r4.buf)),
                          ins.cap, U32(0, 0), ins.pages)

\* LegacyTransaction::try_from(data), run with avail pages of free storage.
\* kind is "Err" (with err), "Ok" (with tx, the capacities of its two
\* vectors and the pages reserved for them) or "Abort" (the process died in
\* an allocation).
try_from(d, avail) ==
    IF Len(d) < MinLen
    THEN Outcome("Err", "InvalidTransaction", NoTx, U32(0, 0), U32(0, 0), 0)
    ELSE LET r1 == read_exact(d, Zero4)
             r2 == read_exact(r1.src, Zero4)
             r3 == read_exact(r2.src, Zero4)
             r4 == read_exact(r3.src, Zero4)
             version_buf == r1.buf
             input_buf == r2.buf
             ouput_buf == r3.buf
             lock_time_buf == r4.buf
             input_count == u32_from_le_bytes(input_buf)
             output_count == u32_from_le_bytes(ouput_buf)
             ins == with_capacity(input_count, SizeOfTxInput, avail)
             outs == with_capacity(output_count, SizeOfTxOutput, avail - ins.pages)
         IN  IF ~ins.ok \/ ~outs.ok
             THEN Outcome("Abort", "", NoTx, U32(0, 0), U32(0, 0), 0)
             ELSE Outcome("Ok", "",
                          LegacyTransaction(i32_from_le_bytes(version_buf), <<>>, <<>>,
                                            u32_from_le_bytes(lock_time_buf)),
                          ins.cap, outs.cap, ins.pages + outs.pages)

(***************************************************************************)
(* Inputs the scenarios draw from.                                         *)
(***************************************************************************)
\* 4-byte words: 0, 1, 0xFFFFFFFF and 0x81020304 (as i32: -1 and a negative
\* number whose four bytes differ).
Words == { <<0, 0, 0, 0>>, <<1, 0, 0, 0>>, <<255, 255, 255, 255>>, <<4, 3, 2, 129>> }

\* Byte slices of every length up to MaxLen, built from the words.
RawSlices ==
    { SubSeq(w1 \o w2 \o w3 \o w4 \o w5 \o w5, 1, n) :
        w1 \in Words, w2 \in Words, w3 \in Words, w4 \in Words, w5 \in Words,
        n \in 0..MaxLen }

\* Free storage: 16 GiB and 512 GiB, in pages.
HeapChoices == { 262144, 8388608 }

VersionVals == { -2147483647 - 1, -1, 1, 2, 2147483647 }

LockTimeVals == { U32(0, 0), U32(0, 1), U32(33026, 772), U32(65535, 65535) }

in1 == TxInput(OutPoint(1, U32(0, 0)), <<>>, U32(65535, 65535))
in2 == TxInput(OutPoint(2, U32(0, 1)), <<118, 169>>, U32(0, 0))
out1 == TxOutput(1000, <<>>)
out2 == TxOutput(0, <<106>>)

InputVals == { in1, in2 }
OutputVals == { out1, out2 }

(***************************************************************************)
(* Values of the variables a scenario does not use.                        *)
(***************************************************************************)
IdleBuilder == builder = Builder_default /\ calls = <<>> /\ tx = NoTx

IdleCodec ==
    /\ bytes = <<>> /\ framing = "none" /\ data = <<>>
    /\ heap = 262144 /\ decoded = NoOutcome

IdleCli ==
    /\ argv = <<>> /\ stdout = <<>>
    /\ cli = [kind |-> "None", err |-> "", msg |-> "", cmd |-> "", amount |-> 0,
              address |-> <<>>]

IdlePoint == ptype = "i64" /\ pstr = <<>> /\ point = [kind |-> "None", msg |-> "", x |-> 0, y |-> 0]

(***************************************************************************)
(* Scenario: the builder.  A fresh builder receives up to MaxCalls calls   *)
(* and is then built.                                                      *)
(***************************************************************************)
InitBuilder ==
    /\ stage = "building"
    /\ builder \in { LegacyTransaction_builder, Builder_new }
    /\ calls = <<>>
    /\ tx = NoTx
    /\ IdleCodec /\ IdleCli /\ IdlePoint

Version(v) ==
    /\ stage = "building" /\ Len(calls) < MaxCalls
    /\ builder' = Builder_version(builder, v)
    /\ calls' = Append(calls, <<"version", v>>)
    /\ UNCHANGED <<stage, tx, bytes, framing, data, heap, decoded, argv, cli,
                   stdout, ptype, pstr, point>>

LockTime(lt) ==
    /\ stage = "building" /\ Len(calls) < MaxCalls
    /\ builder' = Builder_lock_time(builder, lt)
    /\ calls' = Append(calls, <<"lock_time", lt>>)
    /\ UNCHANGED <<stage, tx, bytes, framing, data, heap, decoded, argv, cli,
                   stdout, ptype, pstr, point>>

AddInput(i) ==
    /\ stage = "building" /\ Len(calls) < MaxCalls
    /\ builder' = Builder_add_input(builder, i)
    /\ calls' = Append(calls, <<"add_input", i>>)
    /\ UNCHANGED <<stage, tx, bytes, framing, data, heap, decoded, argv, cli,
                   stdout, ptype, pstr, point>>

AddOutput(o) ==
    /\ stage = "building" /\ Len(calls) < MaxCalls
    /\ builder' = Builder_add_output(builder, o)
    /\ calls' = Append(calls, <<"add_output", o>>)
    /\ UNCHANGED <<stage, tx, bytes, framing, data, heap, decoded, argv, cli,
                   stdout, ptype, pstr, point>>

Build ==
    /\ stage = "building"
    /\ tx' = Builder_build(builder)
    /\ stage' = "built"
    /\ UNCHANGED <<builder, calls, bytes, framing, data, heap, decoded, argv, cli,
                   stdout, ptype, pstr, point>>

NextBuilder ==
    \/ \E v \in { -1, 1, 2 } : Version(v)
    \/ \E lt \in { U32(0, 0), U32(0, 1), U32(65535, 65535) } : LockTime(lt)
    \/ \E i \in InputVals : AddInput(i)
    \/ \E o \in OutputVals : AddOutput(o)
    \/ Build

SpecBuilder == InitBuilder /\ [][NextBuilder]_vars

(***************************************************************************)
(* Scenario: the codec.  Either a raw byte slice is decoded, or a          *)
(* transaction is built, serialized, and its 8 bytes are framed into a     *)
(* decoder input (the eight zero bytes inserted between the two fields, or *)
(* appended) and decoded.                                                  *)
(***************************************************************************)
RECURSIVE AddInputs(_, _)
AddInputs(b, ins) ==
    IF ins = <<>> THEN b ELSE AddInputs(Builder_add_input(b, Head(ins)), Tail(ins))

RECURSIVE AddOutputs(_, _)
AddOutputs(b, outs) ==
    IF outs = <<>> THEN b ELSE AddOutputs(Builder_add_output(b, Head(outs)), Tail(outs))

InitCodec ==
    /\ IdleBuilder /\ IdleCli /\ IdlePoint
    /\ bytes = <<>> /\ framing = "none" /\ decoded = NoOutcome
    /\ heap \in HeapChoices
    /\ \/ stage = "fresh" /\ data = <<>>
       \/ stage = "raw" /\ data \in RawSlices

BuildTx(v, lt, ins, outs) ==
    /\ stage = "fresh"
    /\ tx' = Builder_build(
                AddOutputs(AddInputs(
                    Builder_lock_time(Builder_version(LegacyTransaction_builder, v), lt),
                    ins), outs))
    /\ stage' = "built"
    /\ UNCHANGED <<builder, calls, bytes, framing, data, heap, decoded, argv, cli,
                   stdout, ptype, pstr, point>>

Serialize ==
    /\ stage = "built"
    /\ bytes' = serialize(tx)
    /\ stage' = "serialized"
    /\ UNCHANGED <<builder, calls, tx, framing, data, heap, decoded, argv, cli,
                   stdout, ptype, pstr, point>>

\* E[0..4] ++ eight zero bytes ++ E[4..8]
FrameInserted ==
    /\ stage = "serialized"
    /\ data' = SubSeq(bytes, 1, 4) \o Zero4 \o Zero4 \o SubSeq(bytes, 5, Len(bytes))
    /\ framing' = "inserted"
    /\ stage' = "raw"
    /\ UNCHANGED <<builder, calls, tx, bytes, heap, decoded, argv, cli,
                   stdout, ptype, pstr, point>>

\* E ++ eight zero bytes
FrameAppended ==
    /\ stage = "serialized"
    /\ data' = bytes \o Zero4 \o Zero4
    /\ framing' = "appended"
    /\ stage' = "raw"
    /\ UNCHANGED <<builder, calls, tx, bytes, heap, decoded, argv, cli,
                   stdout, ptype, pstr, point>>

TryFrom ==
    /\ stage = "raw"
    /\ decoded' = try_from(data, heap)
    /\ stage' = "decoded"
    /\ UNCHANGED <<builder, calls, tx, bytes, framing, data, heap, argv, cli,
                   stdout, ptype, pstr, point>>

NextCodec ==
    \/ \E v \in VersionVals, lt \in LockTimeVals,
          ins \in { <<>>, <<in1>>, <<in2, in1>> },
          outs \in { <<>>, <<out2>> } : BuildTx(v, lt, ins, outs)
    \/ Serialize
    \/ FrameInserted
    \/ FrameAppended
    \/ TryFrom

SpecCodec == InitCodec /\ [][NextCodec]_vars

(***************************************************************************)
(* Option<T>.                                                              *)
(***************************************************************************)
None == [some |-> FALSE, val |-> <<>>]
Some(v) == [some |-> TRUE, val |-> v]
is_none(o) == ~o.some

(***************************************************************************)
(* Strings.                                                                *)
(***************************************************************************)
Digits == [c \in {"0", "1", "2", "3", "4", "5", "6", "7", "8", "9"} |->
            CASE c = "0" -> 0 [] c = "1" -> 1 [] c = "2" -> 2 [] c = "3" -> 3
              [] c = "4" -> 4 [] c = "5" -> 5 [] c = "6" -> 6 [] c = "7" -> 7
              [] c = "8" -> 8 [] c = "9" -> 9]

IsDigits(s) == Len(s) > 0 /\ \A i \in 1..Len(s) : s[i] \in DOMAIN Digits

RECURSIVE DigitsValue(_)
DigitsValue(s) ==
    IF s = <<>> THEN 0
    ELSE 10 * DigitsValue(SubSeq(s, 1, Len(s) - 1)) + Digits[s[Len(s)]]

\* <u64 as FromStr>::from_str: an optional '+', then at least one decimal
\* digit and nothing else.  (The strings of the model are too short to
\* overflow a u64.)
parse_u64(s) ==
    LET body == IF Len(s) > 0 /\ s[1] = "+" THEN Tail(s) ELSE s
    IN  IF IsDigits(body) THEN [ok |-> TRUE, val |-> DigitsValue(body)]
        ELSE [ok |-> FALSE, val |-> 0]

\* <i64 as FromStr>::from_str: an optional '+' or '-', then at least one
\* decimal digit and nothing else.  (No overflow, as above.)
parse_i64(s) ==
    LET signed == Len(s) > 0 /\ s[1] \in {"+", "-"}
        body == IF signed THEN Tail(s) ELSE s
    IN  IF IsDigits(body)
        THEN [ok |-> TRUE,
              val |-> IF signed /\ s[1] = "-" THEN 0 - DigitsValue(body)
                      ELSE DigitsValue(body)]
        ELSE [ok |-> FALSE, val |-> 0]

\* <String as FromStr>::from_str: never fails.
parse_String(s) == [ok |-> TRUE, val |-> s]

\* Display of a u64: its decimal digits.
RECURSIVE fmt_u64(_)
fmt_u64(n) ==
    LET d == CHOOSE c \in DOMAIN Digits : Digits[c] = n % 10
    IN  IF n < 10 THEN <<d>> ELSE Append(fmt_u64(n \div 10), d)

(***************************************************************************)
(* The command parser.                                                     *)
(***************************************************************************)
S_send == <<"s", "e", "n", "d">>
S_balance == <<"b", "a", "l", "a", "n", "c", "e">>
S_help == <<"h", "e", "l", "p">>
S_escape == <<"-", "-">>
S_long_help == <<"-", "-", "h", "e", "l", "p">>
S_zero == <<"0">>
S_hundred == <<"1", "0", "0">>
S_minus_five == <<"-", "5">>
S_empty == <<>>
S_address == <<"b", "c", "1">>
S_program == <<"B", "T", "x", "C", " ", "D", "e", "c", "o", "d", "e", "r">>

Tokens == { S_send, S_balance, S_help, S_escape, S_long_help, S_zero, S_hundred,
            S_minus_five, S_empty, S_address }

RECURSIVE SeqsUpTo(_, _)
SeqsUpTo(S, n) ==
    IF n = 0 THEN { <<>> }
    ELSE LET shorter == SeqsUpTo(S, n - 1)
         IN  shorter \cup { Append(q, x) : q \in { r \in shorter : Len(r) = n - 1 }, x \in S }

IsEscape(t) == t = S_escape
IsLong(t) == Len(t) > 2 /\ t[1] = "-" /\ t[2] = "-"
IsShort(t) == Len(t) >= 2 /\ t[1] = "-" /\ t[2] # "-"

\* The values a sub-command's arguments give its positionals: an argument
\* after the escape "--" is a value whatever it looks like; before it, "--"
\* starts the escape, a flag is an error (the sub-commands define none, and
\* the generated help flag ends the parse with an error too), and anything
\* else is a value.
RECURSIVE Positionals(_, _, _)
Positionals(args, trailing, acc) ==
    IF args = <<>> THEN [ok |-> TRUE, vals |-> acc]
    ELSE LET a == Head(args)
         IN  IF trailing THEN Positionals(Tail(args), TRUE, Append(acc, a))
             ELSE IF IsEscape(a) THEN Positionals(Tail(args), TRUE, acc)
             ELSE IF IsLong(a) \/ IsShort(a) THEN [ok |-> FALSE, vals |-> acc]
             ELSE Positionals(Tail(args), FALSE, Append(acc, a))

ClapErr == [ok |-> FALSE, command |-> "None", amount |-> 0, address |-> <<>>]
ClapOk(command, amount, address) ==
    [ok |-> TRUE, command |-> command, amount |-> amount, address |-> address]

\* The Send sub-command: exactly two positionals, amount: u64 and
\* address: String, both required.
Clap_Send(args) ==
    LET p == Positionals(args, FALSE, <<>>)
    IN  IF p.ok /\ Len(p.vals) = 2 /\ parse_u64(p.vals[1]).ok
        THEN ClapOk("Send", parse_u64(p.vals[1]).val, parse_String(p.vals[2]).val)
        ELSE ClapErr

\* The Balance sub-command: no positionals.
Clap_Balance(args) ==
    LET p == Positionals(args, FALSE, <<>>)
    IN  IF p.ok /\ Len(p.vals) = 0 THEN ClapOk("Balance", 0, <<>>) ELSE ClapErr

\* Cli::try_parse_from(command): command[1] is the program name.  The
\* sub-command is optional (command: Option<CliCommand>) and Cli has no
\* positionals and no flags of its own beyond the generated help and
\* version, which end the parse with an error.
Cli_try_parse_from(command) ==
    LET args == Tail(command)
    IN  IF args = <<>> THEN ClapOk("None", 0, <<>>)
        ELSE IF IsEscape(Head(args))
             THEN IF Len(args) = 1 THEN ClapOk("None", 0, <<>>) ELSE ClapErr
        ELSE IF IsLong(Head(args)) \/ IsShort(Head(args)) THEN ClapErr
        ELSE IF Head(args) = S_send THEN Clap_Send(Tail(args))
        ELSE IF Head(args) = S_balance THEN Clap_Balance(Tail(args))
        ELSE ClapErr

CliOutcome(kind, err, msg, cmd, amount, address) ==
    [kind |-> kind, err |-> err, msg |-> msg, cmd |-> cmd,
     amount |-> amount, address |-> address]

CliParseError(msg) == CliOutcome("Err", "ParseError", msg, "", 0, <<>>)

\* The line println! writes on an accepted send.
SendingLine(amount, address) ==
    <<"Sending ", fmt_u64(amount), " satoshis to ", address, "!">>

\* Mutant of Send_arm: the amount is tested before the address.
Send_arm_amount_first(amount, address) ==
    IF amount = 0
    THEN [result |-> CliOutcome("Err", "InvalidAmount", "", "", 0, <<>>), out |-> <<>>]
    ELSE IF address = <<>>
    THEN [result |-> CliParseError("Address cannot be empty"), out |-> <<>>]
    ELSE [result |-> CliOutcome("Ok", "", "", "Send", amount, address),
          out |-> <<SendingLine(amount, address)>>]

\* Mutant of Send_arm: a zero amount is reported as a missing one.
Send_arm_amount_required(amount, address) ==
    IF amount = 0
    THEN [result |-> CliParseError("Amount is required"), out |-> <<>>]
    ELSE IF address = <<>>
    THEN [result |-> CliParseError("Address cannot be empty"), out |-> <<>>]
    ELSE [result |-> CliOutcome("Ok", "", "", "Send", amount, address),
          out |-> <<SendingLine(amount, address)>>]

\* The arm of parse_cli_args for a recognized send: Some(amount) is never
\* None, so the first test never succeeds.
Send_arm(amount, address) ==
    IF is_none(Some(amount))
    THEN [result |-> CliParseError("Amount is required"), out |-> <<>>]
    ELSE IF address = <<>>
    THEN [result |-> CliParseError("Address cannot be empty"), out |-> <<>>]
    ELSE IF amount = 0
    THEN [result |-> CliOutcome("Err", "InvalidAmount", "", "", 0, <<>>), out |-> <<>>]
    ELSE [result |-> CliOutcome("Ok", "", "", "Send", amount, address),
          out |-> <<SendingLine(amount, address)>>]

\* parse_cli_args(args): the result and the lines printed.
parse_cli_args(args) ==
    IF Len(args) = 0
    THEN [result |-> CliParseError("No arguments provided"), out |-> <<>>]
    ELSE LET command == <<S_program>> \o args
             parsed == Cli_try_parse_from(command)
         IN  IF ~parsed.ok
             THEN [result |-> CliParseError("Failed to parse arguments"), out |-> <<>>]
             ELSE IF parsed.command = "Send"
             THEN Send_arm(parsed.amount, parsed.address)
             ELSE IF parsed.command = "Balance"
             THEN [result |-> CliOutcome("Ok", "", "", "Balance", 0, <<>>), out |-> <<>>]
             ELSE [result |-> CliParseError("No valid command specified"), out |-> <<>>]

(***************************************************************************)
(* Scenario: the command parser is run on an argument vector.              *)
(***************************************************************************)
InitCli ==
    /\ IdleBuilder /\ IdleCodec /\ IdlePoint
    /\ stage = "args"
    /\ argv \in SeqsUpTo(Tokens, MaxArgs)
    /\ cli = CliOutcome("None", "", "", "", 0, <<>>)
    /\ stdout = <<>>

ParseCliArgs ==
    /\ stage = "args"
    /\ cli' = parse_cli_args(argv).result
    /\ stdout' = stdout \o parse_cli_args(argv).out
    /\ stage' = "parsed"
    /\ UNCHANGED <<builder, calls, tx, bytes, framing, data, heap, decoded, argv,
                   ptype, pstr, point>>

NextCli == ParseCliArgs

SpecCli == InitCli /\ [][NextCli]_vars

(***************************************************************************)
(* The Point<T> text parser.                                               *)
(***************************************************************************)
strip_prefix(s, c) == IF Len(s) > 0 /\ s[1] = c THEN Some(Tail(s)) ELSE None

strip_suffix(s, c) ==
    IF Len(s) > 0 /\ s[Len(s)] = c THEN Some(SubSeq(s, 1, Len(s) - 1)) ELSE None

\* Mutant of split_once: the last occurrence of c (rsplit_once).
split_once_last(s, c) ==
    LET hits == { i \in 1..Len(s) : s[i] = c }
    IN  IF hits = {} THEN None
        ELSE LET k == CHOOSE i \in hits : \A j \in hits : i >= j
             IN  Some(<<SubSeq(s, 1, k - 1), SubSeq(s, k + 1, Len(s))>>)

\* str::split_once: the text before and after the first occurrence of c.
split_once(s, c) ==
    LET hits == { i \in 1..Len(s) : s[i] = c }
    IN  IF hits = {} THEN None
        ELSE LET k == CHOOSE i \in hits : \A j \in hits : i <= j
             IN  Some(<<SubSeq(s, 1, k - 1), SubSeq(s, k + 1, Len(s))>>)

\* str::parse::<T>() for the component types of the model.
parse_T(T, s) == IF T = "i64" THEN parse_i64(s) ELSE parse_String(s)

PointOutcome(kind, msg, x, y) == [kind |-> kind, msg |-> msg, x |-> x, y |-> y]

\* <Point<T> as FromStr>::from_str(s)
Point_from_str(T, s) ==
    LET a == strip_prefix(s, "(")
        b == IF a.some THEN strip_suffix(a.val, ")") ELSE None
        xy == IF b.some THEN split_once(b.val, ",") ELSE None
    IN  IF ~xy.some THEN PointOutcome("Err", "Error parsing values", 0, 0)
        ELSE LET x_fromstr == parse_T(T, xy.val[1])
                 y_fromstr == parse_T(T, xy.val[2])
             IN  IF ~x_fromstr.ok
                 THEN PointOutcome("Err", "Could not parse x value", 0, 0)
                 ELSE IF ~y_fromstr.ok
                 THEN PointOutcome("Err", "Could not parse y value", 0, 0)
                 ELSE PointOutcome("Ok", "", x_fromstr.val, y_fromstr.val)

(***************************************************************************)
(* Scenario: a string is parsed as a Point<T>.                             *)
(***************************************************************************)
PointChars == { "(", ")", ",", "1", "-", "a" }

ComponentTypes == { "i64", "String" }

InitPoint ==
    /\ IdleBuilder /\ IdleCodec /\ IdleCli
    /\ stage = "text"
    /\ ptype \in ComponentTypes
    /\ pstr \in SeqsUpTo(PointChars, MaxStrLen)
    /\ point = PointOutcome("None", "", 0, 0)

FromStr ==
    /\ stage = "text"
    /\ point' = Point_from_str(ptype, pstr)
    /\ stage' = "parsed"
    /\ UNCHANGED <<builder, calls, tx, bytes, framing, data, heap, decoded, argv,
                   cli, stdout, ptype, pstr>>

NextPoint == FromStr

SpecPoint == InitPoint /\ [][NextPoint]_vars

(***************************************************************************)
(* The claims.                                                             *)
(***************************************************************************)

\* ---- the decoder's admission check ----

\* C1: try_from(D) returns Err(InvalidTransaction) if and only if D has
\* fewer than 12 bytes: every shorter D is refused with InvalidTransaction,
\* and no D of 12 bytes or more makes try_from return an error, whatever
\* its contents.  (The statement is about the value try_from returns.)
C1_ErrIffShorterThan12 ==
    stage = "decoded" =>
        /\ (decoded.kind = "Err") <=> (Len(data) < 12)
        /\ decoded.kind = "Err" => decoded.err = "InvalidTransaction"
        /\ Len(data) < 12 => decoded.err = "InvalidTransaction"

\* C1, its case: an 11-byte slice with non-zero contents was refused.
C1_Witness ==
    /\ stage = "decoded" /\ framing = "none"
    /\ Len(data) = 11 /\ data[1] = 255
    /\ decoded.kind = "Err" /\ decoded.err = "InvalidTransaction"

\* ---- the decoder's result ----

\* C2: for every D of 16 bytes or more try_from(D) succeeds and returns
\* exactly (version = i32 LE of D[0..4], no inputs, no outputs, lock_time =
\* u32 LE of D[12..16]), for every value of the two counts in D[4..12], and
\* the bytes from offset 16 on never change the result.
C2_DecodesHeaderForEveryCount ==
    stage = "decoded" /\ Len(data) >= 16 =>
        /\ decoded.kind = "Ok"
        /\ decoded.tx = LegacyTransaction(i32_from_le_bytes(SubSeq(data, 1, 4)),
                                          <<>>, <<>>,
                                          u32_from_le_bytes(SubSeq(data, 13, 16)))
        /\ decoded = try_from(SubSeq(data, 1, 16), heap)

\* ---- the encoder ----

TxSamples ==
    { LegacyTransaction(v, ins, outs, lt) :
        v \in VersionVals, lt \in LockTimeVals,
        ins \in { <<>>, <<in1>> }, outs \in { <<>>, <<out1, out2>> } }

\* C3: serialize(T) is exactly 8 bytes, the little-endian two's-complement
\* bytes of T.version followed by the little-endian bytes of T.lock_time;
\* they do not depend on T.inputs or T.outputs, so another transaction
\* serializes to the same bytes if and only if it has the same version and
\* lock_time.
C3_SerializeIsHeaderOnly ==
    stage = "serialized" =>
        /\ Len(bytes) = 8
        /\ \A i \in 1..8 : bytes[i] \in Byte
        /\ bytes[1] + 256 * bytes[2] + 65536 * bytes[3]
             + 16777216 * (bytes[4] - (IF bytes[4] >= 128 THEN 256 ELSE 0)) = tx.version
        /\ bytes[5] + 256 * bytes[6] = tx.lock_time[2]
        /\ bytes[7] + 256 * bytes[8] = tx.lock_time[1]
        /\ \A t \in TxSamples :
              (serialize(t) = bytes)
                  <=> (t.version = tx.version /\ t.lock_time = tx.lock_time)

\* C3, its case: a transaction with a negative version, a lock_time whose
\* four bytes differ, and inputs and outputs was serialized.
C3_Witness ==
    /\ stage = "serialized"
    /\ tx.version = -2147483647 - 1 /\ tx.lock_time = U32(33026, 772)
    /\ Len(tx.inputs) = 2 /\ Len(tx.outputs) = 1
    /\ bytes = <<0, 0, 0, 128, 4, 3, 2, 129>>

\* ---- the round trip ----

RoundTrips ==
    /\ decoded.kind = "Ok"
    /\ decoded.tx.version = tx.version
    /\ decoded.tx.lock_time = tx.lock_time

FromVersionAndLockTimeOnly == tx.inputs = <<>> /\ tx.outputs = <<>>

\* C4 as stated: with E = serialize(builder().version(v).lock_time(lt)
\* .build()), decoding E[0..4] ++ eight zero bytes ++ E[4..8] yields
\* version = v and lock_time = lt, and decoding E ++ eight zero bytes does
\* not yield both.
C4_OnlyInsertedRoundTrips ==
    stage = "decoded" /\ framing # "none" /\ FromVersionAndLockTimeOnly =>
        /\ framing = "inserted" => RoundTrips
        /\ framing = "appended" => ~RoundTrips

\* C4 as amended: decoding E[0..4] ++ eight zero bytes ++ E[4..8] yields
\* version = v and lock_time = lt; decoding E ++ eight zero bytes yields
\* both exactly when lt = 0.
C4_AppendedRoundTripsIffLockTimeZero ==
    stage = "decoded" /\ framing # "none" /\ FromVersionAndLockTimeOnly =>
        /\ framing = "inserted" => RoundTrips
        /\ framing = "appended" => (RoundTrips <=> tx.lock_time = U32(0, 0))

\* C4, its case: E ++ eight zero bytes was decoded for lt = 0 and a
\* negative version, and gave both fields back.
C4_Witness ==
    /\ stage = "decoded" /\ framing = "appended" /\ FromVersionAndLockTimeOnly
    /\ tx.version = -1 /\ tx.lock_time = U32(0, 0)
    /\ RoundTrips

\* ---- the builder ----

CallsOf(op) == SelectSeq(calls, LAMBDA c : c[1] = op)

ArgsOf(op) == [i \in 1..Len(CallsOf(op)) |-> CallsOf(op)[i][2]]

LastArg(op, default) ==
    IF CallsOf(op) = <<>> THEN default ELSE CallsOf(op)[Len(CallsOf(op))][2]

\* C5: after any sequence of version, lock_time, add_input and add_output
\* calls on a fresh builder, the builder (and, after build(), the
\* transaction) has version = the argument of the last version call (1 if
\* none), lock_time = the argument of the last lock_time call (0 if none),
\* inputs = the add_input arguments in call order and outputs = the
\* add_output arguments in call order, duplicates kept.  As this holds
\* after every call, a call changes only the field it names.
C5_BuilderFollowsItsCalls ==
    LET expected == LegacyTransaction(LastArg("version", 1), ArgsOf("add_input"),
                                      ArgsOf("add_output"),
                                      LastArg("lock_time", U32(0, 0)))
    IN  /\ stage = "building" => Builder_build(builder) = expected
        /\ stage = "built" => tx = expected

\* C5, its case: version was called twice with different arguments, the
\* same input was added twice, and the transaction was built.
C5_Witness ==
    /\ stage = "built" /\ Len(calls) = 4
    /\ calls[1] = <<"version", 2>> /\ calls[3] = <<"version", -1>>
    /\ calls[2][1] = "add_input" /\ calls[4][1] = "add_input"
    /\ tx.version = -1 /\ tx.inputs = <<in2, in2>>

\* ---- the command parser ----

Recognized == Cli_try_parse_from(<<S_program>> \o argv)

RecognizedSend(amount_is_zero, address_is_empty) ==
    /\ argv # <<>>
    /\ Recognized.ok /\ Recognized.command = "Send"
    /\ (Recognized.amount = 0) = amount_is_zero
    /\ (Recognized.address = <<>>) = address_is_empty

\* C6 as stated: a recognized send whose amount is 0 returns
\* Err(InvalidAmount) for every address, the empty one included, and
\* prints nothing.
C6_ZeroAmountIsInvalidAmount ==
    stage = "parsed" /\ (RecognizedSend(TRUE, TRUE) \/ RecognizedSend(TRUE, FALSE)) =>
        /\ cli.kind = "Err" /\ cli.err = "InvalidAmount"
        /\ stdout = <<>>

\* C6 as amended: a recognized send whose amount is 0 returns
\* Err(InvalidAmount) for every non-empty address, and
\* ParseError("Address cannot be empty") for the empty one; it prints
\* nothing in either case.
C6_ZeroAmountNonEmptyAddress ==
    stage = "parsed" =>
        /\ RecognizedSend(TRUE, FALSE) =>
              cli.kind = "Err" /\ cli.err = "InvalidAmount" /\ stdout = <<>>
        /\ RecognizedSend(TRUE, TRUE) =>
              /\ cli.kind = "Err" /\ cli.err = "ParseError"
              /\ cli.msg = "Address cannot be empty"
              /\ stdout = <<>>

\* C6, its case: ["send", "0", "bc1"] was parsed and refused.
C6_Witness ==
    /\ stage = "parsed"
    /\ argv = <<S_send, S_zero, S_address>>
    /\ cli.err = "InvalidAmount" /\ stdout = <<>>

\* C7 as stated: every ParseError of parse_cli_args carries one of exactly
\* three messages, "No arguments provided" exactly for the empty argv.
C7_ThreeMessages ==
    stage = "parsed" =>
        /\ cli.err = "ParseError" =>
              cli.msg \in { "No arguments provided", "Address cannot be empty",
                            "Failed to parse arguments" }
        /\ (cli.err = "ParseError" /\ cli.msg = "No arguments provided") <=> argv = <<>>

\* C7 as amended: every ParseError of parse_cli_args carries one of exactly
\* four messages: "No arguments provided" (exactly for the empty argv),
\* "Address cannot be empty" (exactly for a recognized send with an empty
\* address), "Failed to parse arguments" (exactly for a non-empty argv the
\* argument parser rejects) and "No valid command specified" (exactly for
\* a non-empty argv the argument parser accepts without a sub-command,
\* such as ["--"]).  "Amount is required" is never returned.
C7_FourMessages ==
    stage = "parsed" =>
        /\ cli.err = "ParseError" =>
              cli.msg \in { "No arguments provided", "Address cannot be empty",
                            "Failed to parse arguments", "No valid command specified" }
        /\ (cli.err = "ParseError" /\ cli.msg = "No arguments provided") <=> argv = <<>>
        /\ (cli.err = "ParseError" /\ cli.msg = "Address cannot be empty")
              <=> (RecognizedSend(TRUE, TRUE) \/ RecognizedSend(FALSE, TRUE))
        /\ (cli.err = "ParseError" /\ cli.msg = "Failed to parse arguments")
              <=> (argv # <<>> /\ ~Recognized.ok)
        /\ (cli.err = "ParseError" /\ cli.msg = "No valid command specified")
              <=> (argv # <<>> /\ Recognized.ok /\ Recognized.command = "None")

\* C7, its case: ["--"] was parsed and gave the fourth message.
C7_Witness ==
    /\ stage = "parsed"
    /\ argv = <<S_escape>>
    /\ cli.err = "ParseError" /\ cli.msg = "No valid command specified"

\* ---- the Point<T> text parser ----

Interior == SubSeq(pstr, 2, Len(pstr) - 1)

WellFormed ==
    /\ Len(pstr) >= 2 /\ pstr[1] = "(" /\ pstr[Len(pstr)] = ")"
    /\ \E i \in 1..Len(Interior) : Interior[i] = ","

FirstComma == CHOOSE i \in 1..Len(Interior) :
                  Interior[i] = "," /\ \A j \in 1..(i - 1) : Interior[j] # ","

FirstHalf == SubSeq(Interior, 1, FirstComma - 1)

SecondHalf == SubSeq(Interior, FirstComma + 1, Len(Interior))

ValidFormOf(T, half) == IF T = "i64" THEN parse_i64(half).ok ELSE TRUE

ValueOf(T, half) == IF T = "i64" THEN parse_i64(half).val ELSE half

\* C8, common part: from_str returns ParseError("Error parsing values")
\* exactly when s does not start with '(' or does not end with ')' or the
\* text between them has no comma; otherwise the interior is split at its
\* first comma, the result is "Could not parse x value" when the first
\* half is not a valid form of T (also when the second is not either),
\* "Could not parse y value" when the first is valid and the second is
\* not, and Point{x, y} with the two parsed values when both are valid.
PointGrammar ==
    /\ (point.kind = "Err" /\ point.msg = "Error parsing values") <=> ~WellFormed
    /\ WellFormed =>
          /\ ~ValidFormOf(ptype, FirstHalf) =>
                point.kind = "Err" /\ point.msg = "Could not parse x value"
          /\ ValidFormOf(ptype, FirstHalf) /\ ~ValidFormOf(ptype, SecondHalf) =>
                point.kind = "Err" /\ point.msg = "Could not parse y value"
          /\ ValidFormOf(ptype, FirstHalf) /\ ValidFormOf(ptype, SecondHalf) =>
                /\ point.kind = "Ok"
                /\ point.x = ValueOf(ptype, FirstHalf)
                /\ point.y = ValueOf(ptype, SecondHalf)

\* C8 as stated: the common part, and a Point is returned only when both
\* halves are non-empty (and valid).
C8_PointOnlyFromNonEmptyHalves ==
    stage = "parsed" =>
        /\ PointGrammar
        /\ point.kind = "Ok" => FirstHalf # <<>> /\ SecondHalf # <<>>

\* C8 as amended: the common part; a Point is returned exactly when both
\* halves are valid textual forms of T, and whether an empty half is valid
\* is up to T (it is not for i64, it is for String).
C8_PointFromValidHalves ==
    stage = "parsed" =>
        /\ PointGrammar
        /\ point.kind = "Ok" <=>
              (WellFormed /\ ValidFormOf(ptype, FirstHalf)
                          /\ ValidFormOf(ptype, SecondHalf))
        /\ ptype = "i64" /\ point.kind = "Ok" => FirstHalf # <<>> /\ SecondHalf # <<>>

\* C8, its case: "(,)" was parsed as a Point<String> and gave two empty
\* coordinates.
C8_Witness ==
    /\ stage = "parsed"
    /\ ptype = "String" /\ pstr = <<"(", ",", ")">>
    /\ point.kind = "Ok" /\ point.x = <<>> /\ point.y = <<>>

\* ---- the decoder's short read ----

ZeroExtended == data \o SubSeq(Zero4, 1, 16 - Len(data))

\* C9: for every D of 12 to 15 bytes, the transaction try_from(D) returns
\* has the fields of D extended to 16 bytes with zero bytes: the bytes
\* present at offsets 12..|D| are read into lock_time and only the missing
\* ones count as zero.
C9_ShortReadKeepsPresentBytes ==
    stage = "decoded" /\ Len(data) >= 12 /\ Len(data) <= 15 /\ decoded.kind = "Ok" =>
        /\ decoded.tx.version = i32_from_le_bytes(SubSeq(ZeroExtended, 1, 4))
        /\ decoded.inputs_cap = u32_from_le_bytes(SubSeq(ZeroExtended, 5, 8))
        /\ decoded.outputs_cap = u32_from_le_bytes(SubSeq(ZeroExtended, 9, 12))
        /\ decoded.tx.lock_time = u32_from_le_bytes(SubSeq(ZeroExtended, 13, 16))

\* ---- the decoder's reservations ----

HasMaxCount ==
    \/ SubSeq(data, 5, 8) = <<255, 255, 255, 255>>
    \/ SubSeq(data, 9, 12) = <<255, 255, 255, 255>>

\* C10: for every D of 12 bytes or more with an input or output count of
\* 0xFFFFFFFF, try_from(D) returns Ok without reserving any storage, and
\* the inputs and outputs it returns are empty.
C10_MaxCountReservesNothing ==
    stage = "decoded" /\ Len(data) >= 12 /\ HasMaxCount =>
        /\ decoded.kind = "Ok"
        /\ decoded.pages = 0
        /\ decoded.tx.inputs = <<>> /\ decoded.tx.outputs = <<>>

====
